---- MODULE Spec2Model ----
(***************************************************************************)
(* Model of the persistence services of the monitoring dashboard:          *)
(*   ConfigService   (src/monitor/services/config_service.py)              *)
(*   AlertDatabase   (src/monitor/services/alert_db.py)                    *)
(*   ContactDatabase (src/monitor/services/contact_db.py)                  *)
(* Each service has its own specification (SpecConfig, SpecAlert,          *)
(* SpecContact); the services do not interact.                             *)
(***************************************************************************)
EXTENDS Integers, Sequences, FiniteSets, TLC

VARIABLES
    \* ---- ConfigService ----
    config,      \* self._config: the in-memory tree, section -> key -> value
    file,        \* the backing file at self._config_path
    lockOwner,   \* self._lock (threading.RLock): the owning thread, or NoThread
    lockCount,   \* self._lock: the owner's recursion level
    call,        \* per thread: the ConfigService call it is executing
    lastSet,     \* history: per (section, key), the value of the last set that returned
    lastWrite,   \* history: outcome of the most recent write of the file by save
    \* ---- AlertDatabase ----
    alerts,      \* table alerts: the set of its rows
    alertOp,     \* the last AlertDatabase call and what it returned
    everAdded,   \* history: the ids of the alerts that add_alert has stored
    \* ---- ContactDatabase ----
    emails,      \* table emails: set of rows [id, value]
    phones,      \* table phones: set of rows [id, value]
    emailSeq,    \* sqlite_sequence entry of table emails (AUTOINCREMENT)
    phoneSeq,    \* sqlite_sequence entry of table phones (AUTOINCREMENT)
    contactOp,   \* the last ContactDatabase call and what it returned
    emailHist,   \* history: every <<id, value>> a row of emails ever held
    phoneHist,   \* history: every <<id, value>> a row of phones ever held
    \* ---- a caller of ConfigService.all ----
    held,        \* the mapping the caller got from all() and still holds
    \* ---- MainWindow and its alerts page ----
    window,      \* whether the MainWindow has been constructed
    currentPage, \* MainWindow._current_page
    content,     \* the widgets of MainWindow._content_layout, in order
    listAlerts,  \* AlertsList._alerts of the alerts page on display
    tableRows,   \* AlertsList._table: per row, the alert id its button removes
    guiOp,       \* the last GUI request and what it did
    \* ---- log_setup ----
    logInitialised, \* _INITIALISED
    logLock,        \* _LOCK: the thread that holds it, or NoThread
    rootHandlers,   \* logging.getLogger().handlers
    queueListener,  \* _QUEUE_LISTENER: whether a listener is running
    installs,       \* history: configurations of the root logger since the last reset
    logCall         \* per thread: the log_setup call it is executing

configVars  == <<config, file, lockOwner, lockCount, call, lastSet, lastWrite>>
alertVars   == <<alerts, alertOp, everAdded>>
contactVars == <<emails, phones, emailSeq, phoneSeq, contactOp, emailHist, phoneHist>>
copyVars    == <<held>>
guiVars     == <<window, currentPage, content, listAlerts, tableRows, guiOp>>
logVars     == <<logInitialised, logLock, rootHandlers, queueListener, installs, logCall>>
uiVars      == <<copyVars, guiVars, logVars>>
vars        == <<configVars, alertVars, contactVars, uiVars>>

(***************************************************************************)
(*                            ConfigService                                *)
(***************************************************************************)

\* JSON primitives as Python values: a tag and the text of the value.
Str(s)  == <<"str", s>>
Bool(b) == <<"bool", b>>
PyNone  == <<"NoneType", "None">>

\* json.dump / json.load of one primitive: str <-> JSON string, bool <-> the
\* literals true / false, None <-> null.
JsonEncode(v) ==
    CASE v[1] = "str"  -> <<"string", v[2]>>
      [] v[1] = "bool" -> <<"literal", IF v[2] = "True" THEN "true" ELSE "false">>
      [] OTHER         -> <<"literal", "null">>

JsonDecode(j) ==
    CASE j[1] = "string" -> <<"str", j[2]>>
      [] j[2] = "true"   -> <<"bool", "True">>
      [] j[2] = "false"  -> <<"bool", "False">>
      [] OTHER           -> <<"NoneType", "None">>

\* json.dump(self._config, f): the document holds every section and every key.
JsonDump(tree) ==
    [s \in DOMAIN tree |-> [k \in DOMAIN tree[s] |-> JsonEncode(tree[s][k])]]

\* json.load(f)
JsonLoad(doc) ==
    [s \in DOMAIN doc |-> [k \in DOMAIN doc[s] |-> JsonDecode(doc[s][k])]]

EmptyDoc == [s \in {} |-> s]

FileMissing  == [kind |-> "missing", doc |-> EmptyDoc]
\* a file that exists and does not hold a JSON document (truncated, partly written)
FileCorrupt  == [kind |-> "corrupt", doc |-> EmptyDoc]
FileJson(doc) == [kind |-> "json", doc |-> doc]

\* _default_config
DefaultConfig ==
    [general |-> [location_name |-> Str(""), monitor_program_path |-> Str("")],
     system  |-> [enable_restart |-> Bool("False"), minutes_to_restart |-> Str(""),
                  startup_snooze_time |-> Str("")],
     devices |-> [relay_fail_threshold |-> Str(""), camera_fail_threshold |-> Str(""),
                  camera_log_minutes |-> Str("")]]

\* mutant of Load: the file is never read, the defaults are always used
Load_IgnoresFile(f, readOk) == DefaultConfig

\* _load, given whether reading the existing file succeeds: the file's tree if
\* it exists and parses, the default tree if it is missing, and the default
\* tree when open / json.load raise (the except branch).
Load(f, readOk) ==
    IF f.kind = "missing" THEN DefaultConfig
    ELSE IF f.kind = "json" /\ readOk THEN JsonLoad(f.doc)
    ELSE DefaultConfig

\* _load of the earlier copy of the class kept in monitor_prototype: the same
\* without the except branch, an exception of open / json.load leaves __init__
LoadError == <<"raise", "Exception">>
PrototypeLoad(f, readOk) ==
    IF f.kind = "missing" THEN DefaultConfig
    ELSE IF f.kind = "json" /\ readOk THEN JsonLoad(f.doc)
    ELSE LoadError

\* dict.get(key, default) on a mapping
DictGet(d, k, default) == IF k \in DOMAIN d THEN d[k] ELSE default

\* d[k] = v on a mapping
DictSet(d, k, v) == [x \in DOMAIN d \cup {k} |-> IF x = k THEN v ELSE d[x]]

EmptyDict == [k \in {} |-> k]

\* mutant of ConfigGet: self._config[section][key], which raises KeyError when
\* the section or the key is absent
ConfigGet_Subscript(tree, section, key, default) ==
    IF section \in DOMAIN tree /\ key \in DOMAIN tree[section]
    THEN tree[section][key]
    ELSE <<"raise", "KeyError">>

\* get: self._config.get(section, {}).get(key, default)
ConfigGet(tree, section, key, default) ==
    DictGet(DictGet(tree, section, EmptyDict), key, default)

\* mutant of ConfigSet: setdefault instead of assignment, a key that is already
\* there keeps its value
ConfigSet_KeepExisting(tree, section, key, value) ==
    IF section \in DOMAIN tree /\ key \in DOMAIN tree[section] THEN tree
    ELSE IF section \in DOMAIN tree
    THEN DictSet(tree, section, DictSet(tree[section], key, value))
    ELSE DictSet(tree, section, DictSet(EmptyDict, key, value))

\* mutant of ConfigSet: the tree is rebuilt around the value set, the other
\* sections are lost
ConfigSet_OnlySection(tree, section, key, value) ==
    DictSet(EmptyDict, section, DictSet(EmptyDict, key, value))

\* set, lines 78-80: create the section if missing, then store the value
ConfigSet(tree, section, key, value) ==
    LET withSection == IF section \notin DOMAIN tree
                       THEN DictSet(tree, section, EmptyDict)
                       ELSE tree
    IN  DictSet(withSection, section, DictSet(withSection[section], key, value))

\* save, lines 58-59, by outcome of the write: open(path, "w") truncates and
\* json.dump writes the whole tree; when open raises the file is untouched;
\* when json.dump raises part-way the file is left truncated.
WriteFile(f, tree, outcome) ==
    CASE outcome = "ok"         -> FileJson(JsonDump(tree))
      [] outcome = "open_error" -> f
      [] OTHER                  -> FileCorrupt

WriteOutcomes == {"ok", "open_error", "dump_error"}

\* ---- inputs ----
Threads   == {"t1", "t2"}
NoThread  == "none"
\* <<section, key, value>> of the set calls
SetInputs == {<<"general", "location_name", Str("Site A")>>,
              <<"general", "location_name", Str("Site B")>>,
              <<"versions", "monitor_version", Str("Site A")>>}
\* <<section, key, default>> of the get calls: keys that sets store, a key that
\* is absent in an existing section, and a section that is absent
GetInputs == {<<"general", "location_name", Str("default")>>,
              <<"general", "location_name", PyNone>>,
              <<"versions", "monitor_version", Str("default")>>,
              <<"general", "nonexistent", Str("default")>>,
              <<"nonexistent_section", "key", PyNone>>}
Addresses == {<<i[1], i[2]>> : i \in SetInputs \cup GetInputs}

NoValue == <<"unset", "">>
Idle == [pc |-> "idle", op |-> "none", section |-> "", key |-> "", arg |-> NoValue,
         ret |-> NoValue]
TimeoutError == <<"raise", "TimeoutError">>
Returned == <<"return", "None">>

InitFiles == {FileMissing, FileCorrupt}

\* mutant of CanAcquire: no lock at all, acquire always succeeds
CanAcquire_Always(t) == TRUE

\* mutant of CanAcquire: threading.Lock instead of threading.RLock, the owner
\* cannot take the lock a second time
CanAcquire_NonReentrant(t) == lockOwner = NoThread

\* threading.RLock.acquire succeeds at once when the lock is free or already
\* held by the calling thread (re-entrant).
CanAcquire(t) == lockOwner = NoThread \/ lockOwner = t

\* the body a call enters once _acquire_lock has returned True
BodyOf(c) ==
    CASE c.pc = "save_acquire" -> "save_body"
      [] c.op = "get"          -> "get_body"
      [] c.op = "set"          -> "set_body"
      [] c.op = "save"         -> "save_body"
      [] OTHER                 -> "all_body"

\* _release_lock: one level of the re-entrant lock is given back
ReleaseLock ==
    /\ lockCount' = lockCount - 1
    /\ lockOwner' = IF lockCount = 1 THEN NoThread ELSE lockOwner

\* a thread calls get(section, key, default)
CallGet(t) ==
    /\ call[t].pc = "idle"
    /\ \E i \in GetInputs :
          call' = [call EXCEPT ![t] = [pc |-> "acquire", op |-> "get", section |-> i[1],
                                       key |-> i[2], arg |-> i[3], ret |-> NoValue]]
    /\ UNCHANGED <<config, file, lockOwner, lockCount, lastSet, lastWrite, alertVars, contactVars, uiVars>>

\* a thread calls set(section, key, value)
CallSet(t) ==
    /\ call[t].pc = "idle"
    /\ \E i \in SetInputs :
          call' = [call EXCEPT ![t] = [pc |-> "acquire", op |-> "set", section |-> i[1],
                                       key |-> i[2], arg |-> i[3], ret |-> NoValue]]
    /\ UNCHANGED <<config, file, lockOwner, lockCount, lastSet, lastWrite, alertVars, contactVars, uiVars>>

\* a thread calls save()
CallSave(t) ==
    /\ call[t].pc = "idle"
    /\ call' = [call EXCEPT ![t] = [Idle EXCEPT !.pc = "acquire", !.op = "save"]]
    /\ UNCHANGED <<config, file, lockOwner, lockCount, lastSet, lastWrite, alertVars, contactVars, uiVars>>

\* a thread calls all()
CallAll(t) ==
    /\ call[t].pc = "idle"
    /\ call' = [call EXCEPT ![t] = [Idle EXCEPT !.pc = "acquire", !.op = "all"]]
    /\ UNCHANGED <<config, file, lockOwner, lockCount, lastSet, lastWrite, alertVars, contactVars, uiVars>>

\* _acquire_lock, the lock obtained: acquire(timeout) returns True
AcquireLock(t) ==
    /\ call[t].pc \in {"acquire", "save_acquire"}
    /\ CanAcquire(t)
    /\ lockOwner' = t
    /\ lockCount' = lockCount + 1
    /\ call' = [call EXCEPT ![t].pc = BodyOf(call[t])]
    /\ UNCHANGED <<config, file, lastSet, lastWrite, alertVars, contactVars, uiVars>>

\* mutant of AcquireTimeout: acquire() without a timeout, the call waits until
\* the lock is free
AcquireTimeout_Blocks(t) ==
    /\ FALSE
    /\ UNCHANGED vars

\* _acquire_lock, the lock held by another thread for the whole timeout:
\* acquire(timeout) returns False and TimeoutError is raised to the caller.
\* (Raised inside set by the nested save, it passes through set's finally.)
AcquireTimeout(t) ==
    /\ call[t].pc \in {"acquire", "save_acquire"}
    /\ ~CanAcquire(t)
    /\ call' = [call EXCEPT ![t].pc = IF call[t].pc = "save_acquire"
                                      THEN "set_release" ELSE "raised",
                            ![t].ret = TimeoutError]
    /\ UNCHANGED <<config, file, lockOwner, lockCount, lastSet, lastWrite, alertVars, contactVars, uiVars>>

\* get, lines 68-73: read the value, release the lock, return the value
GetBody(t) ==
    /\ call[t].pc = "get_body"
    /\ call' = [call EXCEPT ![t].pc = "returned",
                            ![t].ret = ConfigGet(config, call[t].section, call[t].key,
                                                 call[t].arg)]
    /\ ReleaseLock
    /\ UNCHANGED <<config, file, lastSet, lastWrite, alertVars, contactVars, uiVars>>

\* mutant of SetBody: the value is stored and save is not called
SetBody_NoSave(t) ==
    /\ call[t].pc = "set_body"
    /\ config' = ConfigSet(config, call[t].section, call[t].key, call[t].arg)
    /\ call' = [call EXCEPT ![t].pc = "set_release", ![t].ret = Returned]
    /\ UNCHANGED <<file, lockOwner, lockCount, lastSet, lastWrite, alertVars, contactVars, uiVars>>

\* set, lines 78-82: create the section if missing, store the value, call save
SetBody(t) ==
    /\ call[t].pc = "set_body"
    /\ config' = ConfigSet(config, call[t].section, call[t].key, call[t].arg)
    /\ call' = [call EXCEPT ![t].pc = "save_acquire"]
    /\ UNCHANGED <<file, lockOwner, lockCount, lastSet, lastWrite, alertVars, contactVars, uiVars>>

\* mutant of SaveBody: _release_lock at the end of the try block instead of in
\* a finally, so a failed write keeps the lock level taken by save
SaveBody_ReleaseInTry(t) ==
    /\ call[t].pc = "save_body"
    /\ \E outcome \in WriteOutcomes :
          /\ file' = WriteFile(file, config, outcome)
          /\ lastWrite' = outcome
          /\ IF outcome = "ok" THEN ReleaseLock
             ELSE UNCHANGED <<lockOwner, lockCount>>
    /\ call' = [call EXCEPT ![t].pc = IF call[t].op = "set" THEN "set_release"
                                      ELSE "returned",
                            ![t].ret = Returned]
    /\ UNCHANGED <<config, lastSet, alertVars, contactVars, uiVars>>

\* save, lines 56-64: write the whole tree; an exception of the write is logged
\* and swallowed; the lock level taken by save is released either way.
SaveBody(t) ==
    /\ call[t].pc = "save_body"
    /\ \E outcome \in WriteOutcomes :
          /\ file' = WriteFile(file, config, outcome)
          /\ lastWrite' = outcome
    /\ call' = [call EXCEPT ![t].pc = IF call[t].op = "set" THEN "set_release"
                                      ELSE "returned",
                            ![t].ret = Returned]
    /\ ReleaseLock
    /\ UNCHANGED <<config, lastSet, alertVars, contactVars, uiVars>>

\* set, lines 83-84: the finally releases the lock and set returns (or lets the
\* exception of the nested save pass)
SetRelease(t) ==
    /\ call[t].pc = "set_release"
    /\ call' = [call EXCEPT ![t].pc = IF call[t].ret = TimeoutError THEN "raised"
                                      ELSE "returned"]
    /\ lastSet' = IF call[t].ret = TimeoutError THEN lastSet
                  ELSE [lastSet EXCEPT ![<<call[t].section, call[t].key>>] = call[t].arg]
    /\ ReleaseLock
    /\ UNCHANGED <<config, file, lastWrite, alertVars, contactVars, uiVars>>

\* A mapping object a caller can hold: which object it is (the service's own
\* tree, or a mapping built by a copy) and the sections it maps.
\* mutant of DictCopy: return self._config, the tree itself
DictCopy_Alias(tree) == [obj |-> "self._config", tree |-> tree]

\* dict.copy(): a new mapping object with the same items
DictCopy(tree) == [obj |-> "copy", tree |-> tree]

\* all, lines 88-91: return self._config.copy()
AllBody(t) ==
    /\ call[t].pc = "all_body"
    /\ call' = [call EXCEPT ![t].pc = "returned", ![t].ret = DictCopy(config)]
    /\ ReleaseLock
    /\ UNCHANGED <<config, file, lastSet, lastWrite, alertVars, contactVars, uiVars>>

\* the caller takes the result (or the exception) of its call
Return(t) ==
    /\ call[t].pc \in {"returned", "raised"}
    /\ call' = [call EXCEPT ![t] = Idle]
    /\ UNCHANGED <<config, file, lockOwner, lockCount, lastSet, lastWrite, alertVars, contactVars, uiVars>>

\* ---- a caller that keeps the mapping returned by all() ----
NoMapping == [obj |-> "none", tree |-> EmptyDict]

\* all_config = config_service.all(): the caller binds the mapping returned
KeepResult(t) ==
    /\ call[t].pc = "returned"
    /\ call[t].op = "all"
    /\ held' = call[t].ret
    /\ call' = [call EXCEPT ![t] = Idle]
    /\ UNCHANGED <<config, file, lockOwner, lockCount, lastSet, lastWrite, alertVars,
                   contactVars, guiVars, logVars>>

\* what the caller does to the sections of the mapping it holds
HeldOps == {<<"add", "extra">>, <<"remove", "general">>, <<"remove", "extra">>,
            <<"rebind", "general">>, <<"rebind", "versions">>}
OtherSection == [location_name |-> Str("elsewhere")]

\* m[name] = {} / del m[name] / m[name] = {...} on a mapping (del of a missing
\* name raises KeyError and changes nothing)
MutateMapping(tree, m) ==
    CASE m[1] = "add"    -> DictSet(tree, m[2], EmptyDict)
      [] m[1] = "remove" -> [x \in DOMAIN tree \ {m[2]} |-> tree[x]]
      [] OTHER           -> DictSet(tree, m[2], OtherSection)

\* the caller changes the mapping it holds; the change is made to the object
\* held, and it is the service's tree that changes when that object is the tree
MutateHeld(m) ==
    /\ held.obj # "none"
    /\ LET target == IF held.obj = "self._config" THEN config ELSE held.tree
       IN  /\ held' = [held EXCEPT !.tree = MutateMapping(target, m)]
           /\ config' = IF held.obj = "self._config" THEN MutateMapping(target, m)
                         ELSE config
    /\ UNCHANGED <<file, lockOwner, lockCount, call, lastSet, lastWrite, alertVars,
                   contactVars, guiVars, logVars>>

\* a single caller that sets values, reads them, takes all() and edits the
\* mapping it got
Caller == "t1"
CopyNext ==
    \/ CallGet(Caller)
    \/ CallSet(Caller)
    \/ CallAll(Caller)
    \/ AcquireLock(Caller)
    \/ GetBody(Caller)
    \/ SetBody(Caller)
    \/ SaveBody(Caller)
    \/ SetRelease(Caller)
    \/ AllBody(Caller)
    \/ Return(Caller)
    \/ KeepResult(Caller)
    \/ \E m \in HeldOps : MutateHeld(m)

\* process restart: __init__ on the same path builds a fresh lock and runs _load
Restart ==
    /\ \A t \in Threads : call[t].pc = "idle"
    /\ \E readOk \in BOOLEAN : config' = Load(file, readOk)
    /\ lockOwner' = NoThread
    /\ lockCount' = 0
    /\ lastSet' = [a \in Addresses |-> NoValue]
    /\ lastWrite' = "none"
    /\ UNCHANGED <<file, call, alertVars, contactVars, uiVars>>

ConfigNext ==
    \/ \E t \in Threads : CallGet(t)
    \/ \E t \in Threads : CallSet(t)
    \/ \E t \in Threads : CallSave(t)
    \/ \E t \in Threads : CallAll(t)
    \/ \E t \in Threads : AcquireLock(t)
    \/ \E t \in Threads : AcquireTimeout(t)
    \/ \E t \in Threads : GetBody(t)
    \/ \E t \in Threads : SetBody(t)
    \/ \E t \in Threads : SaveBody(t)
    \/ \E t \in Threads : SetRelease(t)
    \/ \E t \in Threads : AllBody(t)
    \/ \E t \in Threads : Return(t)
    \/ Restart

(***************************************************************************)
(*                            AlertDatabase                                *)
(***************************************************************************)

\* AlertType: the enum member and its value, the text stored in alert_type
EnumValue(member) ==
    CASE member = "SPRINKLER" -> "sprinkler"
      [] member = "FAN"       -> "fan"
      [] member = "CAMERA"    -> "camera"
      [] OTHER                -> "software"

\* AlertType(text): the member with that value
AlertType(text) ==
    CASE text = "sprinkler" -> "SPRINKLER"
      [] text = "fan"       -> "FAN"
      [] text = "camera"    -> "CAMERA"
      [] OTHER              -> "SOFTWARE"

\* A datetime is [sec, us]: the second it falls in and its microsecond.
\* datetime.isoformat(): the text "YYYY-MM-DDTHH:MM:SS", followed by ".ffffff"
\* only when the microsecond is not 0; the text is modelled as its fields.
IsoFormat(dt) == IF dt.us = 0 THEN <<dt.sec>> ELSE <<dt.sec, dt.us>>

\* datetime.fromisoformat(text)
FromIsoFormat(text) == [sec |-> text[1], us |-> IF Len(text) > 1 THEN text[2] ELSE 0]

\* comparison of two TEXT values (memcmp: a proper prefix sorts first)
TextLess(a, b) ==
    \/ \E i \in 1..Len(a) :
          /\ i <= Len(b)
          /\ \A j \in 1..(i - 1) : a[j] = b[j]
          /\ a[i] < b[i]
    \/ /\ Len(a) < Len(b)
       /\ \A j \in 1..Len(a) : a[j] = b[j]

\* ---- inputs ----
AlertIds     == {"s1", "f1"}
AlertTypes   == {"SPRINKLER", "FAN"}
Descriptions == {"A1 - 1", "error"}
Timestamps   == {[sec |-> 1, us |-> 0], [sec |-> 1, us |-> 5], [sec |-> 2, us |-> 0]}
\* the Alert objects handed to add_alert
AlertInputs  == [id : AlertIds, alert_type : AlertTypes, description : Descriptions,
                 timestamp : Timestamps]

\* add_alert, lines 41-45: the row written for an alert, resolved = 0
RowOf(a) ==
    [id |-> a.id, alert_type |-> EnumValue(a.alert_type), description |-> a.description,
     timestamp |-> IsoFormat(a.timestamp), resolved |-> 0]

\* get_active_alerts / get_all_alerts, lines 63-70: the Alert built from a row
ToAlert(r) ==
    [id |-> r.id, alert_type |-> AlertType(r.alert_type), description |-> r.description,
     timestamp |-> FromIsoFormat(r.timestamp)]

\* mutant of InsertOrReplace: INSERT OR IGNORE, a stored id keeps its row
InsertOrReplace_Ignore(table, row) ==
    IF \E r \in table : r.id = row.id THEN table ELSE table \cup {row}

\* INSERT OR REPLACE on a table whose primary key is id: the rows that conflict
\* on the key are deleted, then the row is inserted
InsertOrReplace(table, row) == {r \in table : r.id # row.id} \cup {row}

\* mutant of UpdateResolved: SET resolved = 1 - resolved, a second resolve
\* makes the alert active again
UpdateResolved_Toggle(table, id) ==
    {IF r.id = id THEN [r EXCEPT !.resolved = 1 - r.resolved] ELSE r : r \in table}

\* mutant of UpdateResolved: the row is deleted instead of being flagged
UpdateResolved_Delete(table, id) == {r \in table : r.id # id}

\* mutant of UpdateResolved: the UPDATE without its WHERE clause
UpdateResolved_NoWhere(table, id) == {[r EXCEPT !.resolved = 1] : r \in table}

\* UPDATE alerts SET resolved = 1 WHERE id = ?
UpdateResolved(table, id) ==
    {IF r.id = id THEN [r EXCEPT !.resolved = 1] ELSE r : r \in table}

\* cursor.rowcount of that UPDATE: the rows matched
RowCount(table, id) == Cardinality({r \in table : r.id = id})

\* mutant of ActiveRows: the SELECT without its WHERE clause
ActiveRows_NoFilter(table) == table

\* SELECT ... FROM alerts WHERE resolved = 0
ActiveRows(table) == {r \in table : r.resolved = 0}

\* SELECT ... FROM alerts
AllRows(table) == table

\* mutant of OrderByTimestampDesc: ORDER BY timestamp (ascending)
OrderByTimestampAsc(rows) ==
    LET n == Cardinality(rows)
    IN  {f \in [1..n -> rows] :
            /\ \A i, j \in 1..n : i # j => f[i] # f[j]
            /\ \A i \in 1..n, j \in 1..n :
                  i < j => ~TextLess(f[j].timestamp, f[i].timestamp)}

\* ORDER BY timestamp DESC: every listing of the rows in which no row comes
\* before one with a greater timestamp text (rows with equal timestamps come
\* in any order)
OrderByTimestampDesc(rows) ==
    LET n == Cardinality(rows)
    IN  {f \in [1..n -> rows] :
            /\ \A i, j \in 1..n : i # j => f[i] # f[j]
            /\ \A i \in 1..n, j \in 1..n :
                  i < j => ~TextLess(f[i].timestamp, f[j].timestamp)}

\* the list of Alert objects built from the fetched rows
AlertList(seq) == [i \in DOMAIN seq |-> ToAlert(seq[i])]

\* what get_active_alerts / get_all_alerts can return on a table
ActiveAlerts(table) == {AlertList(f) : f \in OrderByTimestampDesc(ActiveRows(table))}
AllAlerts(table)    == {AlertList(f) : f \in OrderByTimestampDesc(AllRows(table))}

\* history: whether the id is stored before a call, and with which flag
PreStatus(table, id) ==
    IF \E r \in table : r.id = id /\ r.resolved = 1 THEN "resolved"
    ELSE IF \E r \in table : r.id = id THEN "active"
    ELSE "absent"

\* mutant of AddAlert: no try / except around the INSERT, a storage error
\* reaches the caller
AddAlert_NoExcept(a, fault) ==
    /\ alerts' = IF fault THEN alerts ELSE InsertOrReplace(alerts, RowOf(a))
    /\ alertOp' = [op |-> "add_alert", arg |-> a, ret |-> ~fault, raised |-> fault,
                   pre |-> PreStatus(alerts, a.id)]
    /\ everAdded' = IF fault THEN everAdded ELSE everAdded \cup {a.id}
    /\ UNCHANGED <<configVars, contactVars, uiVars>>

\* add_alert(alert); `fault`: the storage operation raises (the except branch)
AddAlert(a, fault) ==
    /\ alerts' = IF fault THEN alerts ELSE InsertOrReplace(alerts, RowOf(a))
    /\ alertOp' = [op |-> "add_alert", arg |-> a, ret |-> ~fault, raised |-> FALSE,
                   pre |-> PreStatus(alerts, a.id)]
    /\ everAdded' = IF fault THEN everAdded ELSE everAdded \cup {a.id}
    /\ UNCHANGED <<configVars, contactVars, uiVars>>

\* mutant of ResolveAlert: True is returned without looking at cursor.rowcount
ResolveAlert_NoRowcount(id, fault) ==
    /\ alerts' = IF fault THEN alerts ELSE UpdateResolved(alerts, id)
    /\ alertOp' = [op |-> "resolve_alert", arg |-> id, ret |-> ~fault, raised |-> FALSE,
                   pre |-> PreStatus(alerts, id)]
    /\ UNCHANGED <<everAdded, configVars, contactVars, uiVars>>

\* resolve_alert(alert_id); `fault`: the storage operation raises (the except branch)
ResolveAlert(id, fault) ==
    /\ alerts' = IF fault THEN alerts ELSE UpdateResolved(alerts, id)
    /\ alertOp' = [op |-> "resolve_alert", arg |-> id,
                   ret |-> ~fault /\ RowCount(alerts, id) > 0, raised |-> FALSE,
                   pre |-> PreStatus(alerts, id)]
    /\ UNCHANGED <<everAdded, configVars, contactVars, uiVars>>

\* get_active_alerts(); a storage error is not caught and reaches the caller
GetActiveAlerts(fault) ==
    /\ \E result \in ActiveAlerts(alerts) :
          alertOp' = [op |-> "get_active_alerts", arg |-> "",
                      ret |-> IF fault THEN <<>> ELSE result, raised |-> fault,
                      pre |-> "none"]
    /\ UNCHANGED <<alerts, everAdded, configVars, contactVars, uiVars>>

\* get_all_alerts(); a storage error is not caught and reaches the caller
GetAllAlerts(fault) ==
    /\ \E result \in AllAlerts(alerts) :
          alertOp' = [op |-> "get_all_alerts", arg |-> "",
                      ret |-> IF fault THEN <<>> ELSE result, raised |-> fault,
                      pre |-> "none"]
    /\ UNCHANGED <<alerts, everAdded, configVars, contactVars, uiVars>>

AlertNext ==
    \/ \E a \in AlertInputs, fault \in BOOLEAN : AddAlert(a, fault)
    \/ \E id \in AlertIds, fault \in BOOLEAN : ResolveAlert(id, fault)
    \/ \E fault \in BOOLEAN : GetActiveAlerts(fault)
    \/ \E fault \in BOOLEAN : GetAllAlerts(fault)

(***************************************************************************)
(*                           ContactDatabase                               *)
(***************************************************************************)

\* ---- inputs ----
\* the largest id the model lets a table assign
MaxId == 3
EmailInputs == {"Bob@x.com", "amy@x.com"}
PhoneInputs == {"+1555", "0501"}
ContactIds  == 1..MaxId

\* the inputs in the order of SQLite's default BINARY collation (memcmp of the
\* bytes: "+" < "0" < "B" < "a")
BinaryOrder == <<"+1555", "0501", "Bob@x.com", "amy@x.com">>
Rank(v) == CHOOSE i \in DOMAIN BinaryOrder : BinaryOrder[i] = v

\* mutant of Conflicts: the column is not declared UNIQUE
Conflicts_Never(table, v) == FALSE

\* INSERT INTO t (value): fails with IntegrityError when the UNIQUE value is
\* already there
Conflicts(table, v) == \E r \in table : r.value = v

\* the id given by INTEGER PRIMARY KEY AUTOINCREMENT: one more than the largest
\* id the table ever held (sqlite_sequence)
NextId(seq) == seq + 1

\* mutant of Insert: the id is the number of rows plus one, not the next value
\* of the AUTOINCREMENT sequence
Insert_CountPlusOne(table, seq, v) ==
    table \cup {[id |-> Cardinality(table) + 1, value |-> v]}

\* mutant of Insert: INTEGER PRIMARY KEY without AUTOINCREMENT, the id is one
\* more than the largest id now in the table
Insert_MaxRowid(table, seq, v) ==
    LET ids == {r.id : r \in table}
        top == IF ids = {} THEN 0 ELSE CHOOSE i \in ids : \A j \in ids : j <= i
    IN  table \cup {[id |-> top + 1, value |-> v]}

\* INSERT INTO t (value) VALUES (?)
Insert(table, seq, v) == table \cup {[id |-> NextId(seq), value |-> v]}

\* mutant of Delete: the DELETE without its WHERE clause
Delete_NoWhere(table, id) == {}

\* DELETE FROM t WHERE id = ?
Delete(table, id) == {r \in table : r.id # id}

\* cursor.rowcount of that DELETE
Deleted(table, id) == Cardinality({r \in table : r.id = id})

\* SELECT id, value FROM t ORDER BY value
OrderByValue(table) ==
    LET n == Cardinality(table)
        f == CHOOSE g \in [1..n -> table] :
                \A i, j \in 1..n : i < j => Rank(g[i].value) < Rank(g[j].value)
    IN  [i \in 1..n |-> <<f[i].id, f[i].value>>]

\* the <<id, value>> pairs of the rows of a table
Pairs(table) == {<<r.id, r.value>> : r \in table}

\* add_email(email); `fault`: a storage error other than the IntegrityError
AddEmail(v, fault) ==
    /\ emailSeq < MaxId
    /\ LET ok == ~fault /\ ~Conflicts(emails, v)
       IN  /\ emails' = IF ok THEN Insert(emails, emailSeq, v) ELSE emails
           /\ emailSeq' = IF ok THEN NextId(emailSeq) ELSE emailSeq
           /\ contactOp' = [op |-> "add_email", arg |-> v, ret |-> ok]
           /\ emailHist' = emailHist \cup Pairs(emails')
    /\ UNCHANGED <<phones, phoneSeq, phoneHist, configVars, alertVars, uiVars>>

\* add_phone(phone); `fault`: a storage error other than the IntegrityError
AddPhone(v, fault) ==
    /\ phoneSeq < MaxId
    /\ LET ok == ~fault /\ ~Conflicts(phones, v)
       IN  /\ phones' = IF ok THEN Insert(phones, phoneSeq, v) ELSE phones
           /\ phoneSeq' = IF ok THEN NextId(phoneSeq) ELSE phoneSeq
           /\ contactOp' = [op |-> "add_phone", arg |-> v, ret |-> ok]
           /\ phoneHist' = phoneHist \cup Pairs(phones')
    /\ UNCHANGED <<emails, emailSeq, emailHist, configVars, alertVars, uiVars>>

\* get_emails()
GetEmails ==
    /\ contactOp' = [op |-> "get_emails", arg |-> "", ret |-> OrderByValue(emails)]
    /\ UNCHANGED <<emails, emailSeq, phones, phoneSeq, emailHist, phoneHist,
                   configVars, alertVars, uiVars>>

\* get_phones()
GetPhones ==
    /\ contactOp' = [op |-> "get_phones", arg |-> "", ret |-> OrderByValue(phones)]
    /\ UNCHANGED <<emails, emailSeq, phones, phoneSeq, emailHist, phoneHist,
                   configVars, alertVars, uiVars>>

\* remove_email(email_id); `fault`: the storage operation raises
RemoveEmail(id, fault) ==
    /\ emails' = IF fault THEN emails ELSE Delete(emails, id)
    /\ contactOp' = [op |-> "remove_email", arg |-> id,
                     ret |-> ~fault /\ Deleted(emails, id) > 0]
    /\ UNCHANGED <<emailSeq, phones, phoneSeq, emailHist, phoneHist, configVars, alertVars, uiVars>>

\* remove_phone(phone_id); `fault`: the storage operation raises
RemovePhone(id, fault) ==
    /\ phones' = IF fault THEN phones ELSE Delete(phones, id)
    /\ contactOp' = [op |-> "remove_phone", arg |-> id,
                     ret |-> ~fault /\ Deleted(phones, id) > 0]
    /\ UNCHANGED <<phoneSeq, emails, emailSeq, emailHist, phoneHist, configVars, alertVars, uiVars>>

ContactNext ==
    \/ \E v \in EmailInputs, fault \in BOOLEAN : AddEmail(v, fault)
    \/ \E v \in PhoneInputs, fault \in BOOLEAN : AddPhone(v, fault)
    \/ GetEmails
    \/ GetPhones
    \/ \E id \in ContactIds, fault \in BOOLEAN : RemoveEmail(id, fault)
    \/ \E id \in ContactIds, fault \in BOOLEAN : RemovePhone(id, fault)

(***************************************************************************)
(*                    MainWindow and its alerts page                       *)
(***************************************************************************)

\* ---- inputs ----
\* the page names PageFactory.create_page knows
ValidPages == {"alerts", "contacts", "settings"}
\* the names a page-change request can carry: the valid ones and
\* "failing_devices", which the prototype's navigation bar emits and no
\* PageFactory knows
PageNames  == ValidPages \cup {"failing_devices"}
NoPage     == "None"
\* what can go wrong with the storage while a request runs: nothing, a read
\* (get_active_alerts and the like raise) or a write (add_alert / resolve_alert
\* take their except branch)
GuiFaults  == {"none", "read", "write"}
\* the most rows the model lets add_new_alert grow the list to
MaxRows    == 3

\* generate_dummy_alerts: alerts with fixed ids, each stamped datetime.now()
\* when it is built, so later ones carry later timestamps (one sprinkler and
\* the software alert stand for the nine)
DummyAlerts ==
    <<[id |-> "sprinkler_0", alert_type |-> "SPRINKLER", description |-> "A1 - 1",
       timestamp |-> [sec |-> 1, us |-> 5]],
      [id |-> "software_1", alert_type |-> "SOFTWARE", description |-> "error",
       timestamp |-> [sec |-> 1, us |-> 6]]>>

\* the alerts the monitoring side hands to add_new_alert: one device whose
\* alert is raised, and raised again later
NewAlerts ==
    {a \in AlertInputs : /\ a.id = "s1"
                         /\ a.alert_type = "SPRINKLER"
                         /\ a.description = "A1 - 1"
                         /\ a.timestamp.us = 0}

PageWidget(name)  == [kind |-> "page", name |-> name]
\* _create_error_widget(message): the placeholder label
ErrorWidget(name) == [kind |-> "error", name |-> name]
Raise(exc)        == [kind |-> "raise", name |-> exc]

\* PageFactory.create_page: the page for a known name, ValueError for any
\* other; `ok`: the page's constructor runs without raising
CreatePage(name, ok) ==
    IF name \notin ValidPages THEN Raise("ValueError")
    ELSE IF ~ok THEN Raise("Exception")
    ELSE PageWidget(name)

\* mutant of Caught: no except clause, the exception leaves _update_content
Caught_Nothing(exc) == FALSE

\* _update_content, lines 235 and 241: except ValueError, except Exception
Caught(exc) == exc \in {"ValueError", "Exception"}

\* mutant of SamePage: no early return
SamePage_Never(name) == FALSE

\* _update_content, lines 218-220: the page requested is the current one
SamePage(name) == currentPage = name

\* add_alert called for each alert of a list in turn, results ignored
RECURSIVE AddEach(_, _, _)
AddEach(table, list, fault) ==
    IF list = <<>> THEN table
    ELSE AddEach(IF fault THEN table ELSE InsertOrReplace(table, RowOf(Head(list))),
                 Tail(list), fault)

\* _load_alerts, lines 39-47: the table after the load; the dummy alerts are
\* added when get_active_alerts returned an empty list
LoadStore(table, fault) ==
    IF ActiveRows(table) = {} THEN AddEach(table, DummyAlerts, fault) ELSE table

\* AlertsList.add_alert: the row inserted for an alert (type, description,
\* time to the second) and the id its remove button is connected to
TableRow(a) ==
    [type |-> EnumValue(a.alert_type), description |-> a.description,
     time |-> a.timestamp.sec, button |-> a.id]

\* _load_alerts, lines 49-50: every alert of the list is added to the table
RowsOf(list) == [i \in DOMAIN list |-> TableRow(list[i])]

\* list.pop(i) / removeRow(i)
RemoveAt(seq, i) == [j \in 1..(Len(seq) - 1) |-> IF j < i THEN seq[j] ELSE seq[j + 1]]

\* _recreate_button_connections: each button is connected to the id of the
\* alert at its row
Reconnect(rows, list) ==
    [i \in DOMAIN rows |-> IF i <= Len(list) THEN [rows[i] EXCEPT !.button = list[i].id]
                           ELSE rows[i]]

AlertsPageShown == window = "built" /\ content = <<PageWidget("alerts")>>

\* _on_page_changed / _update_content(name), lines 216-244
UpdateContent(name, fault) ==
    IF SamePage(name)
    THEN /\ guiOp' = [op |-> "update_content", arg |-> name, pre |-> currentPage,
                      created |-> FALSE, cleared |-> FALSE, raised |-> FALSE]
         /\ UNCHANGED <<currentPage, content, listAlerts, tableRows, alerts, everAdded>>
    ELSE LET made == CreatePage(name, fault # "read")
         IN  IF made.kind = "page"
             THEN /\ content' = <<made>>
                  /\ currentPage' = name
                  /\ guiOp' = [op |-> "update_content", arg |-> name, pre |-> currentPage,
                               created |-> TRUE, cleared |-> TRUE, raised |-> FALSE]
                  /\ IF made.name = "alerts"
                     THEN /\ alerts' = LoadStore(alerts, fault = "write")
                          /\ everAdded' = everAdded \cup {r.id : r \in alerts' \ alerts}
                          /\ \E shown \in ActiveAlerts(alerts') :
                                /\ listAlerts' = shown
                                /\ tableRows' = RowsOf(shown)
                     ELSE /\ listAlerts' = <<>>
                          /\ tableRows' = <<>>
                          /\ UNCHANGED <<alerts, everAdded>>
             ELSE /\ content' = IF Caught(made.name) THEN <<ErrorWidget(name)>> ELSE <<>>
                  /\ guiOp' = [op |-> "update_content", arg |-> name, pre |-> currentPage,
                               created |-> FALSE, cleared |-> TRUE,
                               raised |-> ~Caught(made.name)]
                  /\ listAlerts' = <<>>
                  /\ tableRows' = <<>>
                  /\ UNCHANGED <<currentPage, alerts, everAdded>>

\* MainWindow.__init__: _current_page = None, then _setup_ui shows the alerts page
ConstructWindow(fault) ==
    /\ window = "none"
    /\ window' = "built"
    /\ UpdateContent("alerts", fault)
    /\ UNCHANGED <<alertOp, configVars, contactVars, copyVars, logVars>>

\* the navigation bar emits page_changed(name)
ChangePage(name, fault) ==
    /\ window = "built"
    /\ UpdateContent(name, fault)
    /\ UNCHANGED <<window, alertOp, configVars, contactVars, copyVars, logVars>>

\* AlertsPage.refresh_alerts, lines 61-68: the list and the table are emptied,
\* then _load_alerts runs (a read error leaves them empty)
RefreshAlerts(fault) ==
    /\ AlertsPageShown
    /\ guiOp' = [op |-> "refresh_alerts", arg |-> "", pre |-> currentPage,
                 created |-> FALSE, cleared |-> FALSE, raised |-> fault = "read"]
    /\ IF fault = "read"
       THEN /\ listAlerts' = <<>>
            /\ tableRows' = <<>>
            /\ UNCHANGED <<alerts, everAdded>>
       ELSE /\ alerts' = LoadStore(alerts, fault = "write")
            /\ everAdded' = everAdded \cup {r.id : r \in alerts' \ alerts}
            /\ \E shown \in ActiveAlerts(alerts') :
                  /\ listAlerts' = shown
                  /\ tableRows' = RowsOf(shown)
    /\ UNCHANGED <<window, currentPage, content, alertOp, configVars, contactVars,
                   copyVars, logVars>>

\* AlertsPage.add_new_alert, lines 70-73: add_alert on the store, its result
\* ignored, then AlertsList.add_alert appends a row
AddNewAlert(a, fault) ==
    /\ AlertsPageShown
    /\ Len(listAlerts) < MaxRows
    /\ alerts' = IF fault = "write" THEN alerts ELSE InsertOrReplace(alerts, RowOf(a))
    /\ everAdded' = IF fault = "write" THEN everAdded ELSE everAdded \cup {a.id}
    /\ listAlerts' = Append(listAlerts, a)
    /\ tableRows' = Append(tableRows, TableRow(a))
    /\ guiOp' = [op |-> "add_new_alert", arg |-> a, pre |-> currentPage,
                 created |-> FALSE, cleared |-> FALSE, raised |-> FALSE]
    /\ UNCHANGED <<window, currentPage, content, alertOp, configVars, contactVars,
                   copyVars, logVars>>

\* a click on the remove button of a row: AlertsList._remove_by_id(id) with the
\* id the button is connected to, lines 100-114; resolve_alert on the store (a
\* failure is only printed), then the first entry of _alerts with that id and
\* its row are removed and the buttons reconnected
RemoveById(row, fault) ==
    /\ AlertsPageShown
    /\ row \in DOMAIN tableRows
    /\ LET id   == tableRows[row].button
           hits == {i \in DOMAIN tableRows : i <= Len(listAlerts) /\ listAlerts[i].id = id}
       IN  /\ alerts' = IF fault = "write" THEN alerts ELSE UpdateResolved(alerts, id)
           /\ IF hits = {}
              THEN UNCHANGED <<listAlerts, tableRows>>
              ELSE LET first == CHOOSE i \in hits : \A j \in hits : i <= j
                   IN  /\ listAlerts' = RemoveAt(listAlerts, first)
                       /\ tableRows' = Reconnect(RemoveAt(tableRows, first),
                                                 RemoveAt(listAlerts, first))
           /\ guiOp' = [op |-> "remove_by_id", arg |-> id, pre |-> currentPage,
                        created |-> FALSE, cleared |-> FALSE, raised |-> FALSE]
    /\ UNCHANGED <<window, currentPage, content, alertOp, everAdded, configVars,
                   contactVars, copyVars, logVars>>

GuiNext ==
    \/ \E fault \in GuiFaults : ConstructWindow(fault)
    \/ \E name \in PageNames, fault \in GuiFaults : ChangePage(name, fault)
    \/ \E fault \in GuiFaults : RefreshAlerts(fault)
    \/ \E a \in NewAlerts, fault \in GuiFaults : AddNewAlert(a, fault)
    \/ \E row \in 1..MaxRows, fault \in GuiFaults : RemoveById(row, fault)

(***************************************************************************)
(*                              log_setup                                  *)
(***************************************************************************)

LogModes == {"sync", "async"}
LogIdle  == [pc |-> "idle", op |-> "none", mode |-> "sync", did |-> "none"]

\* init_logging, lines 274-285: the handlers the root logger ends up with
RootHandlersFor(mode) ==
    IF mode = "async" THEN {"QueueHandler"} ELSE {"app.log", "errors.log"}

\* mutant of AlreadyInitialised: no test of the flag inside the lock
AlreadyInitialised_Unchecked == FALSE

\* init_logging, lines 260-261: if _INITIALISED: return
AlreadyInitialised == logInitialised

\* a thread calls init_logging(mode)
CallInitLogging(t, mode) ==
    /\ logCall[t].pc = "idle"
    /\ logCall' = [logCall EXCEPT ![t] = [pc |-> "init_lock", op |-> "init_logging",
                                         mode |-> mode, did |-> "none"]]
    /\ UNCHANGED <<logInitialised, logLock, rootHandlers, queueListener, installs,
                   configVars, alertVars, contactVars, copyVars, guiVars>>

\* a thread calls get_logger(name), lines 336-338: the flag is read without
\* the lock, and init_logging() is called with its defaults when it is False
CallGetLogger(t) ==
    /\ logCall[t].pc = "idle"
    /\ logCall' = [logCall EXCEPT ![t] =
                      IF logInitialised
                      THEN [pc |-> "idle", op |-> "get_logger", mode |-> "sync",
                            did |-> "logger"]
                      ELSE [pc |-> "init_lock", op |-> "get_logger", mode |-> "sync",
                            did |-> "none"]]
    /\ UNCHANGED <<logInitialised, logLock, rootHandlers, queueListener, installs,
                   configVars, alertVars, contactVars, copyVars, guiVars>>

\* init_logging, lines 259-261: with _LOCK, then the test of the flag
InitEnter(t) ==
    /\ logCall[t].pc = "init_lock"
    /\ logLock = NoThread
    /\ IF AlreadyInitialised
       THEN /\ logCall' = [logCall EXCEPT ![t].pc = "idle", ![t].did = "skipped"]
            /\ UNCHANGED logLock
       ELSE /\ logCall' = [logCall EXCEPT ![t].pc = "init_configure"]
            /\ logLock' = t
    /\ UNCHANGED <<logInitialised, rootHandlers, queueListener, installs,
                   configVars, alertVars, contactVars, copyVars, guiVars>>

\* init_logging, lines 264-285: the log directory and the file handlers are
\* created (`ok`: without an OSError, which leaves the with block and the
\* call), then the root logger's handlers are replaced
InitConfigure(t, ok) ==
    /\ logCall[t].pc = "init_configure"
    /\ IF ok
       THEN /\ rootHandlers' = RootHandlersFor(logCall[t].mode)
            /\ queueListener' = (logCall[t].mode = "async")
            /\ installs' = installs + 1
            /\ logCall' = [logCall EXCEPT ![t].pc = "init_flag"]
            /\ UNCHANGED logLock
       ELSE /\ logLock' = NoThread
            /\ logCall' = [logCall EXCEPT ![t].pc = "idle", ![t].did = "raised"]
            /\ UNCHANGED <<rootHandlers, queueListener, installs>>
    /\ UNCHANGED <<logInitialised, configVars, alertVars, contactVars, copyVars, guiVars>>

\* init_logging, line 295: _INITIALISED = True, and the with block ends
InitFinish(t) ==
    /\ logCall[t].pc = "init_flag"
    /\ logInitialised' = TRUE
    /\ logLock' = NoThread
    /\ logCall' = [logCall EXCEPT ![t].pc = "idle", ![t].did = "configured"]
    /\ UNCHANGED <<rootHandlers, queueListener, installs,
                   configVars, alertVars, contactVars, copyVars, guiVars>>

\* a thread calls reset_logging()
CallResetLogging(t) ==
    /\ logCall[t].pc = "idle"
    /\ logCall' = [logCall EXCEPT ![t] = [pc |-> "reset_lock", op |-> "reset_logging",
                                         mode |-> "sync", did |-> "none"]]
    /\ UNCHANGED <<logInitialised, logLock, rootHandlers, queueListener, installs,
                   configVars, alertVars, contactVars, copyVars, guiVars>>

\* reset_logging, lines 308-316, under the lock: nothing when the flag is
\* False, else the listener is stopped, the handlers removed, the flag cleared
ResetBody(t) ==
    /\ logCall[t].pc = "reset_lock"
    /\ logLock = NoThread
    /\ IF ~logInitialised
       THEN /\ logCall' = [logCall EXCEPT ![t].pc = "idle", ![t].did = "reset_noop"]
            /\ UNCHANGED <<logInitialised, rootHandlers, queueListener, installs>>
       ELSE /\ queueListener' = FALSE
            /\ rootHandlers' = {}
            /\ installs' = 0
            /\ logInitialised' = FALSE
            /\ logCall' = [logCall EXCEPT ![t].pc = "idle", ![t].did = "reset"]
    /\ UNCHANGED <<logLock, configVars, alertVars, contactVars, copyVars, guiVars>>

LogNext ==
    \/ \E t \in Threads, mode \in LogModes : CallInitLogging(t, mode)
    \/ \E t \in Threads : CallGetLogger(t)
    \/ \E t \in Threads : InitEnter(t)
    \/ \E t \in Threads, ok \in BOOLEAN : InitConfigure(t, ok)
    \/ \E t \in Threads : InitFinish(t)
    \/ \E t \in Threads : CallResetLogging(t)
    \/ \E t \in Threads : ResetBody(t)

\* The state after construction of the three services: a ConfigService loaded
\* from its path, empty alert and contact stores; no caller holds a mapping,
\* the MainWindow is not built yet and logging is not initialised.
Init ==
    /\ file \in InitFiles
    /\ \E readOk \in BOOLEAN : config = Load(file, readOk)
    /\ lockOwner = NoThread
    /\ lockCount = 0
    /\ call = [t \in Threads |-> Idle]
    /\ lastSet = [a \in Addresses |-> NoValue]
    /\ lastWrite = "none"
    /\ alerts = {}
    /\ alertOp = [op |-> "none", arg |-> "", ret |-> FALSE, raised |-> FALSE,
                  pre |-> "none"]
    /\ everAdded = {}
    /\ emails = {}
    /\ phones = {}
    /\ emailSeq = 0
    /\ phoneSeq = 0
    /\ contactOp = [op |-> "none", arg |-> "", ret |-> FALSE]
    /\ emailHist = {}
    /\ phoneHist = {}
    /\ held = NoMapping
    /\ window = "none"
    /\ currentPage = NoPage
    /\ content = <<>>
    /\ listAlerts = <<>>
    /\ tableRows = <<>>
    /\ guiOp = [op |-> "none", arg |-> "", pre |-> NoPage, created |-> FALSE,
                cleared |-> FALSE, raised |-> FALSE]
    /\ logInitialised = FALSE
    /\ logLock = NoThread
    /\ rootHandlers = {}
    /\ queueListener = FALSE
    /\ installs = 0
    /\ logCall = [t \in Threads |-> LogIdle]

SpecConfig == Init /\ [][ConfigNext]_vars

\* The first start of the application, with no config file yet; the stores do
\* not depend on the config file, and their specifications start here.
InitStores  == Init /\ file = FileMissing

\* A thread inside a call goes on running: acquire(timeout) returns after at
\* most the timeout, and each body runs to its finally.
Proceed(t) ==
    \/ AcquireLock(t) \/ AcquireTimeout(t)
    \/ GetBody(t) \/ SetBody(t) \/ SaveBody(t) \/ SetRelease(t) \/ AllBody(t)

SpecConfigFair ==
    /\ InitStores
    /\ [][ConfigNext]_vars
    /\ \A t \in Threads : WF_vars(Proceed(t))
SpecAlert   == InitStores /\ [][AlertNext]_vars
SpecContact == InitStores /\ [][ContactNext]_vars
SpecCopy    == InitStores /\ [][CopyNext]_vars
SpecGui     == InitStores /\ [][GuiNext]_vars
SpecLogging == InitStores /\ [][LogNext]_vars

\* ---------------------------------------------------------------------------
\* Claims about ConfigService, checked under SpecConfig
\* ---------------------------------------------------------------------------

AddrOf(c) == <<c.section, c.key>>
Defaults == {i[3] : i \in GetInputs}

\* C1: once set(section, key, value) has returned, every get(section, key, d)
\* that returns gives that value, whatever d and whether or not the section
\* existed before, until the next set of the same section and key returns.
C1_SetThenGet ==
    [][\A t \in Threads :
          GetBody(t) /\ lastSet[AddrOf(call[t])] # NoValue
             => call'[t].ret = lastSet[AddrOf(call[t])]]_vars

\* C1 witness: a get of a key in a section that the set had to create has
\* returned the value set.
C1_Witness ==
    \E t \in Threads :
       /\ call[t].pc = "returned" /\ call[t].op = "get"
       /\ call[t].section = "versions"
       /\ lastSet[AddrOf(call[t])] = Str("Site A")
       /\ call[t].ret = Str("Site A")

\* what get(a) would return on a new ConfigService constructed now on the same
\* path, the file being readable
GetAfterRestart(a, d) == ConfigGet(Load(file, TRUE), a[1], a[2], d)

SetReturns(t) == SetRelease(t) /\ call[t].ret # TimeoutError

\* the tree stored in the config file equals the in-memory tree
FileEqualsMemory(f, tree) == f.kind = "json" /\ JsonLoad(f.doc) = tree

Absent(tree, section, key) ==
    section \notin DOMAIN tree \/ key \notin DOMAIN tree[section]

\* a step of thread t inside a get call (the call, the lock, the body, the return)
GetStep(t) == call'[t] # call[t] /\ (call[t].op = "get" \/ call'[t].op = "get")

InBody(c) ==
    c.pc \in {"get_body", "set_body", "save_acquire", "save_body", "set_release",
              "all_body"}

\* thread t takes a step that reads or writes the tree or the file
Touches(t) ==
    /\ call'[t] # call[t]
    /\ \/ config' # config \/ file' # file
       \/ call[t].pc \in {"get_body", "set_body", "save_body", "all_body"}

\* C12: the lock serializes the calls on one instance: no two threads are
\* inside the bodies of get, set, all or save at the same time, a thread inside
\* a body holds the lock, and every step that reads or writes the tree or the
\* file is taken by the thread that holds the lock.
C12_Serialized ==
    /\ [](\A t1, t2 \in Threads :
             InBody(call[t1]) /\ InBody(call[t2]) => t1 = t2)
    /\ [](\A t \in Threads : InBody(call[t]) => lockOwner = t /\ lockCount > 0)
    /\ [][\A t \in Threads : Touches(t) => lockOwner = t]_vars

\* C12 witness: one thread is writing the file inside set while the other one,
\* which called set too, is still waiting for the lock.
C12_Witness ==
    /\ call["t1"].pc = "save_body" /\ call["t1"].op = "set"
    /\ call["t2"].pc = "acquire" /\ call["t2"].op = "set"
    /\ lockOwner = "t1"

\* thread t is inside a call that has not returned or raised yet
Pending(t) == call[t].pc \notin {"idle", "returned", "raised"}

\* C13: a call that cannot obtain the lock ends with TimeoutError raised to the
\* caller, the lock being held by another thread; a call that raises has changed
\* neither the tree nor the file (it raised at its first acquire, and neither
\* that step nor the call itself changes them); and every call eventually
\* returns or raises.
C13_TimeoutNotForever ==
    /\ [][\A t \in Threads :
             /\ call[t].pc = "idle" /\ call'[t].pc # "idle"
                   => call'[t].pc = "acquire" /\ config' = config /\ file' = file
             /\ call'[t].pc = "raised" /\ call[t].pc # "raised"
                   => /\ call[t].pc = "acquire"
                      /\ lockOwner \notin {NoThread, t}
                      /\ call'[t].ret = TimeoutError
                      /\ config' = config /\ file' = file
                      /\ lockOwner' = lockOwner /\ lockCount' = lockCount]_vars
    /\ \A t \in Threads : Pending(t) ~> ~Pending(t)

\* C13 witness: a set call has ended with TimeoutError while the other thread
\* holds the lock inside its own set.
C13_Witness ==
    /\ call["t2"].pc = "raised" /\ call["t2"].op = "set"
    /\ call["t2"].ret = TimeoutError
    /\ lockOwner = "t1" /\ call["t1"].op = "set"

\* C14: the lock is re-entrant: the save that set calls while it holds the lock
\* obtains the lock at once (a second level of the same owner) and never times
\* out, so a set that has obtained the lock never ends with TimeoutError.
C14_Reentrant ==
    /\ [](\A t \in Threads :
             call[t].pc = "save_acquire"
                => lockOwner = t /\ ENABLED AcquireLock(t) /\ ~ENABLED AcquireTimeout(t))
    /\ [][\A t \in Threads :
             /\ call[t].pc = "save_acquire" /\ call'[t] # call[t]
                   => call'[t].pc = "save_body" /\ lockOwner' = t
                      /\ lockCount' = lockCount + 1
             /\ call[t].pc = "set_release" => call[t].ret # TimeoutError]_vars

\* C14 witness: a thread is inside the save called by its own set, holding two
\* levels of the lock.
C14_Witness ==
    \E t \in Threads :
       /\ call[t].pc = "save_body" /\ call[t].op = "set"
       /\ lockOwner = t /\ lockCount = 2

\* the file at the path is missing, or cannot be read or parsed
Unloadable(f, readOk) == f.kind # "json" \/ ~readOk

\* C15 (as stated): constructing a ConfigService on a path whose file is
\* missing, corrupt or unreadable does not raise and leaves the default tree as
\* the in-memory tree; stated of both copies of the class.
C15_Original ==
    \A readOk \in BOOLEAN :
       Unloadable(file, readOk) =>
          /\ Load(file, readOk) = DefaultConfig
          /\ PrototypeLoad(file, readOk) = DefaultConfig

\* the value stored in a tree at an address, NoValue when there is none
ValueAt(tree, a) ==
    IF a[1] \in DOMAIN tree /\ a[2] \in DOMAIN tree[a[1]] THEN tree[a[1]][a[2]]
    ELSE NoValue

\* the tree written in the file, the empty one when the file holds none
TreeOf(f) == IF f.kind = "json" THEN JsonLoad(f.doc) ELSE EmptyDict

Levels(c) ==
    CASE c.pc \in {"get_body", "set_body", "all_body", "save_acquire", "set_release"} -> 1
      [] c.pc = "save_body" -> IF c.op = "set" THEN 2 ELSE 1
      [] OTHER -> 0

\* C27: every operation gives back the levels of the lock it took, on every
\* path, also when the write of the file fails: a thread that is not inside a
\* call, or whose call has returned or raised, holds no level; the count of
\* the lock is the count of levels held by the calls in progress; and with no
\* other thread inside a call the lock is free for a waiting thread.
C27_LockBalanced ==
    /\ \A t \in Threads :
          /\ Levels(call[t]) = 0 => lockOwner # t
          /\ Levels(call[t]) > 0 => lockOwner = t /\ lockCount = Levels(call[t])
    /\ (\A t \in Threads : Levels(call[t]) = 0) => lockOwner = NoThread /\ lockCount = 0
    /\ \A t \in Threads :
          call[t].pc = "acquire" /\ (\A u \in Threads \ {t} : Levels(call[u]) = 0)
             => ENABLED AcquireLock(t)

\* C27 witness: a set whose write of the file failed has returned, the lock is
\* free and the other thread is waiting for it.
C27_Witness ==
    /\ call["t1"].pc = "returned" /\ call["t1"].op = "set"
    /\ lastWrite = "dump_error"
    /\ call["t2"].pc = "acquire"
    /\ lockOwner = NoThread /\ lockCount = 0

\* ---------------------------------------------------------------------------
\* Claims about AlertDatabase, checked under SpecAlert
\* ---------------------------------------------------------------------------

RowsWithId(table, id) == {r \in table : r.id = id}
Elements(seq) == {seq[i] : i \in DOMAIN seq}

\* C5: add_alert is an upsert by id: an add of an alert whose id is already
\* stored (resolved or not) leaves exactly one row with that id, which reads
\* back as the new alert (type, description, timestamp) with resolved = 0, and
\* leaves the rows with other ids as they were.
C5_Upsert ==
    [][alertOp'.op = "add_alert" /\ alertOp'.ret /\ alertOp'.pre # "absent" =>
          LET a == alertOp'.arg
          IN  /\ Cardinality(RowsWithId(alerts', a.id)) = 1
              /\ \A r \in RowsWithId(alerts', a.id) :
                    ToAlert(r) = a /\ r.resolved = 0
              /\ {r \in alerts' : r.id # a.id} = {r \in alerts : r.id # a.id}]_vars

\* C5 witness: an alert was added over a resolved row with the same id and
\* other fields, while another id is stored; the row is active again.
C5_Witness ==
    /\ alertOp.op = "add_alert" /\ alertOp.ret /\ alertOp.pre = "resolved"
    /\ alertOp.arg.timestamp.us # 0
    /\ \A r \in RowsWithId(alerts, alertOp.arg.id) : r.resolved = 0
    /\ \E r \in alerts : r.id # alertOp.arg.id

\* C6: right after any get_active_alerts call, in any reachable store, the
\* alerts returned are exactly the stored alerts whose resolved flag is 0, each
\* once and none of them resolved, and each of them is among the alerts
\* get_all_alerts returns.
C6_ActiveAlerts ==
    alertOp.op = "get_active_alerts" /\ ~alertOp.raised =>
       LET got    == Elements(alertOp.ret)
           active == {r \in alerts : r.resolved = 0}
       IN  /\ got = {ToAlert(r) : r \in active}
           /\ Len(alertOp.ret) = Cardinality(active)
           /\ \A x \in got : \A r \in RowsWithId(alerts, x.id) : r.resolved # 1
           /\ \A all \in AllAlerts(alerts) : got \subseteq Elements(all)

\* C6 witness: get_active_alerts returned one alert of a store that holds two,
\* the other one resolved.
C6_Witness ==
    /\ alertOp.op = "get_active_alerts" /\ ~alertOp.raised
    /\ Len(alertOp.ret) = 1
    /\ Cardinality(alerts) = 2
    /\ \E r \in alerts : r.resolved = 1

\* the effect the claim gives resolve_alert(id) on a stored id
ResolvedOnly(id) ==
    /\ alertOp'.ret = TRUE
    /\ \A r \in alerts : r.id # id => r \in alerts'
    /\ \A r \in alerts : r.id = id => [r EXCEPT !.resolved = 1] \in alerts'
    /\ Cardinality(alerts') = Cardinality(alerts)
    /\ \A res \in ActiveAlerts(alerts') : \A x \in Elements(res) : x.id # id
    /\ \A res \in AllAlerts(alerts') :
          \A r \in RowsWithId(alerts, id) : ToAlert(r) \in Elements(res)

\* C7 (as stated): resolve_alert(id) on a stored id returns true and sets only
\* that row's resolved flag: the alert leaves get_active_alerts, stays in
\* get_all_alerts with the same fields, and every other row is unchanged.
C7_Original ==
    [][\A id \in AlertIds, fault \in BOOLEAN :
          ResolveAlert(id, fault) /\ RowsWithId(alerts, id) # {}
             => ResolvedOnly(id)]_vars

\* C7 (amended): the same, provided the storage operation does not fail; when
\* it fails resolve_alert returns false and no row changes.
C7_ResolveStored ==
    [][\A id \in AlertIds, fault \in BOOLEAN :
          ResolveAlert(id, fault) /\ RowsWithId(alerts, id) # {}
             => IF fault THEN alertOp'.ret = FALSE /\ alerts' = alerts
                ELSE ResolvedOnly(id)]_vars

\* C7 witness: an active alert was resolved while another one stays active.
C7_Witness ==
    /\ alertOp.op = "resolve_alert" /\ alertOp.ret /\ alertOp.pre = "active"
    /\ \A r \in RowsWithId(alerts, alertOp.arg) : r.resolved = 1
    /\ \E r \in alerts : r.id # alertOp.arg /\ r.resolved = 0

\* C8: resolve_alert(id) for an id that is not stored returns false, raises
\* nothing, and leaves every stored row unchanged.
C8_ResolveUnknown ==
    [][\A id \in AlertIds, fault \in BOOLEAN :
          ResolveAlert(id, fault) /\ RowsWithId(alerts, id) = {}
             => alertOp'.ret = FALSE /\ ~alertOp'.raised /\ alerts' = alerts]_vars

\* C8 witness: resolve_alert of an id that is not stored returned false on a
\* store that holds another alert.
C8_Witness ==
    /\ alertOp.op = "resolve_alert" /\ alertOp.pre = "absent" /\ ~alertOp.ret
    /\ alerts # {}
    /\ RowsWithId(alerts, alertOp.arg) = {}

\* every id that is stored as resolved before the step and is not in `except`
\* is still stored as resolved after it
StaysResolved(except) ==
    \A r \in alerts :
       r.resolved = 1 /\ r.id \notin except =>
          /\ RowsWithId(alerts', r.id) # {}
          /\ \A r2 \in RowsWithId(alerts', r.id) : r2.resolved = 1

\* C16 (as stated): once an alert id is resolved, no operation (add_alert,
\* resolve_alert, get_active_alerts, get_all_alerts) makes it active again.
C16_Original == [][StaysResolved({})]_vars

\* C16 (amended): a resolved id stays resolved under resolve_alert, the two
\* queries, a failed add_alert and add_alert of another id; the one step that
\* makes it active again is an add_alert with the same id that stores its row.
C16_ResolvedUntilReadded ==
    [][IF alertOp'.op = "add_alert" /\ alertOp'.ret
       THEN StaysResolved({alertOp'.arg.id})
       ELSE StaysResolved({})]_vars

\* C16 witness: resolve_alert was called again on a resolved alert, which is
\* still resolved, while another alert is active.
C16_Witness ==
    /\ alertOp.op = "resolve_alert" /\ alertOp.pre = "resolved" /\ alertOp.ret
    /\ \A r \in RowsWithId(alerts, alertOp.arg) : r.resolved = 1
    /\ \E r \in alerts : r.resolved = 0

StoredIds(table) == {r.id : r \in table}

\* C17: no call removes a stored id; the stored ids are the ids add_alert has
\* stored so far, one row each.
C17_NeverDeleted ==
    /\ [][StoredIds(alerts) \subseteq StoredIds(alerts')]_vars
    /\ [](/\ StoredIds(alerts) = everAdded
          /\ Cardinality(alerts) = Cardinality(everAdded))

\* C17 witness: two ids were added, one of them was resolved and has been
\* resolved once more; both rows are still stored.
C17_Witness ==
    /\ everAdded = AlertIds
    /\ Cardinality(alerts) = 2
    /\ alertOp.op = "resolve_alert" /\ alertOp.pre = "resolved"
    /\ \E r \in alerts : r.resolved = 0

\* datetime comparison: a is earlier than b
Earlier(a, b) == a.sec < b.sec \/ (a.sec = b.sec /\ a.us < b.us)

\* C18: in what get_active_alerts and get_all_alerts return, no alert comes
\* before one with a later timestamp.
C18_NewestFirst ==
    alertOp.op \in {"get_active_alerts", "get_all_alerts"} /\ ~alertOp.raised =>
       \A i, j \in DOMAIN alertOp.ret :
          i < j => ~Earlier(alertOp.ret[i].timestamp, alertOp.ret[j].timestamp)

\* C18 witness: get_all_alerts returned two alerts of the same second, the one
\* with microseconds (the longer timestamp text) first.
C18_Witness ==
    /\ alertOp.op = "get_all_alerts" /\ ~alertOp.raised
    /\ Len(alertOp.ret) = 2
    /\ alertOp.ret[1].timestamp = [sec |-> 1, us |-> 5]
    /\ alertOp.ret[2].timestamp = [sec |-> 1, us |-> 0]

\* C19: add_alert never raises; when the storage operation fails it returns
\* false and the rows are unchanged; when it returns true the alert is stored,
\* active, and reads back as given.
C19_AddNeverRaises ==
    [][alertOp'.op = "add_alert" =>
          LET a == alertOp'.arg
          IN  /\ ~alertOp'.raised
              /\ alertOp'.ret \in BOOLEAN
              /\ AddAlert(a, TRUE) => alertOp'.ret = FALSE /\ alerts' = alerts
              /\ alertOp'.ret = FALSE => alerts' = alerts
              /\ alertOp'.ret = TRUE =>
                    \E r \in alerts' : r.id = a.id /\ r.resolved = 0 /\ ToAlert(r) = a]_vars

\* C19 witness: an add_alert of an id that is not stored failed on a store that
\* holds another alert: it returned false and the id is still not stored.
C19_Witness ==
    /\ alertOp.op = "add_alert" /\ ~alertOp.ret /\ ~alertOp.raised
    /\ alertOp.pre = "absent"
    /\ alerts # {}
    /\ RowsWithId(alerts, alertOp.arg.id) = {}

\* ---------------------------------------------------------------------------
\* Claims about ContactDatabase, checked under SpecContact
\* ---------------------------------------------------------------------------

\* v is the value of a row of the table
Stored(table, v) == \E r \in table : r.value = v

\* the table gains exactly one row, holding v
GainsOne(before, after, v) ==
    \E r \in after : r.value = v /\ r \notin before /\ after = before \cup {r}

\* C9 (as stated): add_email(v) / add_phone(v) returns false and leaves the
\* table unchanged when v is already stored, and returns true and adds exactly
\* one row holding v when it is not.
C9_Original ==
    [][/\ \A v \in EmailInputs, fault \in BOOLEAN :
             AddEmail(v, fault) =>
                IF Stored(emails, v)
                THEN contactOp'.ret = FALSE /\ emails' = emails
                ELSE contactOp'.ret = TRUE /\ GainsOne(emails, emails', v)
       /\ \A v \in PhoneInputs, fault \in BOOLEAN :
             AddPhone(v, fault) =>
                IF Stored(phones, v)
                THEN contactOp'.ret = FALSE /\ phones' = phones
                ELSE contactOp'.ret = TRUE /\ GainsOne(phones, phones', v)]_vars

\* C9 (amended): add_email(v) / add_phone(v) returns false and leaves the table
\* unchanged when v is already stored; when v is not stored it returns true and
\* adds exactly one row holding v, unless the storage operation fails: it then
\* returns false and the table is unchanged.
C9_AddContact ==
    [][/\ \A v \in EmailInputs, fault \in BOOLEAN :
             AddEmail(v, fault) =>
                IF Stored(emails, v) \/ fault
                THEN contactOp'.ret = FALSE /\ emails' = emails
                ELSE contactOp'.ret = TRUE /\ GainsOne(emails, emails', v)
       /\ \A v \in PhoneInputs, fault \in BOOLEAN :
             AddPhone(v, fault) =>
                IF Stored(phones, v) \/ fault
                THEN contactOp'.ret = FALSE /\ phones' = phones
                ELSE contactOp'.ret = TRUE /\ GainsOne(phones, phones', v)]_vars

\* C9 witness: an add of a stored e-mail was refused on a table of two rows.
C9_Witness ==
    /\ contactOp.op = "add_email" /\ ~contactOp.ret
    /\ Stored(emails, contactOp.arg)
    /\ Cardinality(emails) = 2

\* no two rows of the table share a value or an id
UniqueRows(table) ==
    \A r1, r2 \in table : (r1.value = r2.value \/ r1.id = r2.id) => r1 = r2

EmailOps == {"add_email", "remove_email", "get_emails"}
PhoneOps == {"add_phone", "remove_phone", "get_phones"}

\* C10: after every call no two rows of emails share a value or an id, nor two
\* rows of phones; and a call on one table leaves the other table (its rows and
\* its id sequence) unchanged.
C10_UniqueIndependent ==
    [][/\ UniqueRows(emails') /\ UniqueRows(phones')
       /\ contactOp'.op \in EmailOps => phones' = phones /\ phoneSeq' = phoneSeq
       /\ contactOp'.op \in PhoneOps => emails' = emails /\ emailSeq' = emailSeq]_vars

\* C10 witness: after removals and further adds both tables hold two rows, and
\* the tables hold rows with the same id.
C10_Witness ==
    /\ Cardinality(emails) = 2 /\ Cardinality(phones) = 2
    /\ emailSeq = MaxId /\ phoneSeq = 2
    /\ \E e \in emails, q \in phones : e.id = q.id

\* rows of the table with that id
WithId(table, id) == {r \in table : r.id = id}

\* the effect the claim gives remove_email(id) / remove_phone(id)
Removes(before, after, id) ==
    IF WithId(before, id) # {}
    THEN contactOp'.ret = TRUE /\ after = before \ WithId(before, id)
    ELSE contactOp'.ret = FALSE /\ after = before

\* C11 (as stated): remove_email(id) / remove_phone(id) returns true exactly
\* when a row with that id is stored, and then that row alone is gone; for an
\* id that is not stored it returns false and leaves the table unchanged.
C11_Original ==
    [][/\ \A id \in ContactIds, fault \in BOOLEAN :
             RemoveEmail(id, fault) => Removes(emails, emails', id)
       /\ \A id \in ContactIds, fault \in BOOLEAN :
             RemovePhone(id, fault) => Removes(phones, phones', id)]_vars

\* C11 (amended): the same, unless the storage operation fails: the call then
\* returns false and the table is unchanged, also for a stored id.
C11_RemoveContact ==
    [][/\ \A id \in ContactIds, fault \in BOOLEAN :
             RemoveEmail(id, fault) =>
                /\ contactOp'.ret \in BOOLEAN
                /\ IF fault THEN contactOp'.ret = FALSE /\ emails' = emails
                   ELSE Removes(emails, emails', id)
       /\ \A id \in ContactIds, fault \in BOOLEAN :
             RemovePhone(id, fault) =>
                /\ contactOp'.ret \in BOOLEAN
                /\ IF fault THEN contactOp'.ret = FALSE /\ phones' = phones
                   ELSE Removes(phones, phones', id)]_vars

\* C11 witness: remove_email removed one of two stored rows: it returned true,
\* the other row is still there and the id is gone.
C11_Witness ==
    /\ contactOp.op = "remove_email" /\ contactOp.ret
    /\ emailSeq = 2
    /\ Cardinality(emails) = 1
    /\ WithId(emails, contactOp.arg) = {}

\* alphabetical order of the inputs (letters compared without regard to case);
\* it differs from the byte order on "Bob@x.com" and "amy@x.com"
AlphabeticalOrder == <<"+1555", "0501", "amy@x.com", "Bob@x.com">>
AlphaRank(v) == CHOOSE i \in DOMAIN AlphabeticalOrder : AlphabeticalOrder[i] = v

\* the sequence lists every row of the table once, as <<id, value>>
ListsRows(seq, table) ==
    /\ Len(seq) = Cardinality(table)
    /\ {seq[i] : i \in DOMAIN seq} = {<<r.id, r.value>> : r \in table}

\* C20 (as stated): get_emails / get_phones return every stored row once, as
\* (id, value) pairs in ascending alphabetical order of value.
C20_Original ==
    /\ contactOp.op = "get_emails" =>
          /\ ListsRows(contactOp.ret, emails)
          /\ \A i, j \in DOMAIN contactOp.ret :
                i < j => AlphaRank(contactOp.ret[i][2]) < AlphaRank(contactOp.ret[j][2])
    /\ contactOp.op = "get_phones" =>
          /\ ListsRows(contactOp.ret, phones)
          /\ \A i, j \in DOMAIN contactOp.ret :
                i < j => AlphaRank(contactOp.ret[i][2]) < AlphaRank(contactOp.ret[j][2])

\* every row that ever held id i in the history held the value v
SameOwner(hist) == \A p, q \in hist : p[1] = q[1] => p[2] = q[2]

\* the ids of the history
IdsOf(hist) == {p[1] : p \in hist}

\* C28: contact ids are never reused: a newly added e-mail (or phone) gets an
\* id that no earlier row of its table ever had, so an id names the same
\* contact for ever, and a remove issued with an id captured earlier removes
\* that contact's row or nothing.
C28_IdsNeverReused ==
    /\ [][/\ \A r \in emails' \ emails : r.id \notin IdsOf(emailHist)
          /\ \A r \in phones' \ phones : r.id \notin IdsOf(phoneHist)
          /\ contactOp'.op = "remove_email" =>
                Pairs(emails \ emails') \subseteq {p \in emailHist : p[1] = contactOp'.arg}
          /\ contactOp'.op = "remove_phone" =>
                Pairs(phones \ phones') \subseteq {p \in phoneHist : p[1] = contactOp'.arg}]_vars
    /\ [](SameOwner(emailHist) /\ SameOwner(phoneHist))

\* C28 witness: the row with the largest id was removed and another e-mail was
\* added afterwards: it has a new id, and the removed id is not stored.
C28_Witness ==
    /\ contactOp.op = "add_email" /\ contactOp.ret
    /\ emailSeq = 3
    /\ \E p \in emailHist : p[1] = 2 /\ 2 \notin {r.id : r \in emails}
    /\ \E r \in emails : r.id = 3 /\ r.value = contactOp.arg
    /\ \E r \in emails : r.id = 1

\* ---------------------------------------------------------------------------
\* Claims about a caller of all(), checked under SpecCopy
\* ---------------------------------------------------------------------------

\* the caller changed the mapping it holds
HeldEdited == held.obj # "none" /\ held'.tree # held.tree /\ call' = call

\* C21: all() returns a copy holding the sections and values the tree has at
\* the time of the call, and adding, removing or rebinding a section in the
\* mapping returned changes neither what later get and all calls return nor
\* the config file.
C21_AllReturnsCopy ==
    [][/\ \A t \in Threads :
             (call[t].pc = "all_body" /\ call'[t].pc = "returned") =>
                /\ call'[t].ret.tree = config
                /\ call'[t].ret.obj = "copy"
       /\ HeldEdited =>
             /\ file' = file
             /\ config' = config
             /\ \A i \in GetInputs :
                   ConfigGet(config', i[1], i[2], i[3]) = ConfigGet(config, i[1], i[2], i[3])]_vars

\* C21 witness: the caller added a section to the mapping it got and removed
\* another, and a later get returned the value the tree still holds.
C21_Witness ==
    /\ held.obj = "copy"
    /\ "extra" \in DOMAIN held.tree
    /\ "general" \notin DOMAIN held.tree
    /\ "general" \in DOMAIN config
    /\ "extra" \notin DOMAIN config
    /\ call[Caller].op = "get" /\ call[Caller].pc = "returned"
    /\ call[Caller].section = "general"
    /\ call[Caller].ret = config["general"]["location_name"]
    /\ call[Caller].ret = Str("Site A")

\* ---------------------------------------------------------------------------
\* Claims about MainWindow and the alerts page, checked under SpecGui
\* ---------------------------------------------------------------------------

\* the step loads the alerts page (a new page is built, or refresh_alerts runs)
LoadsAlerts ==
    \/ guiOp'.op = "refresh_alerts"
    \/ guiOp'.op = "update_content" /\ guiOp'.arg = "alerts" /\ guiOp'.created

\* C22 as stated: dummy alerts are seeded only when the store is empty; a load
\* or refresh of the alerts page on a store that holds at least one alert,
\* active or resolved, adds no alert and changes no stored row.
C22_Original ==
    [][(LoadsAlerts /\ alerts # {}) => alerts' = alerts]_vars

\* C23: _update_content(p) with p already the current page does nothing: no
\* page is created, the content area is not cleared and keeps its widget, and
\* _current_page is unchanged.
C23_SamePageNoOp ==
    /\ [](guiOp.op = "update_content" /\ guiOp.pre = guiOp.arg =>
             /\ ~guiOp.created
             /\ ~guiOp.cleared
             /\ ~guiOp.raised
             /\ currentPage = guiOp.arg)
    /\ [][(guiOp'.op = "update_content" /\ guiOp'.arg = currentPage) =>
             /\ content' = content
             /\ currentPage' = currentPage
             /\ listAlerts' = listAlerts
             /\ tableRows' = tableRows
             /\ alerts' = alerts]_vars

\* C23 witness: the contacts page is on display and was requested again.
C23_Witness ==
    /\ guiOp.op = "update_content"
    /\ guiOp.pre = "contacts" /\ guiOp.arg = "contacts"
    /\ currentPage = "contacts"
    /\ content = <<PageWidget("contacts")>>

\* C24: when the page requested cannot be created (an unknown name, for which
\* create_page always fails), _update_content raises nothing, the content area
\* holds the error widget alone, and _current_page keeps the value it had
\* before the request.
C24_UnknownPageHandled ==
    [][/\ (guiOp'.op = "update_content" /\ guiOp'.arg \notin ValidPages) =>
             ~guiOp'.created /\ guiOp'.cleared
       /\ (guiOp'.op = "update_content" /\ guiOp'.cleared /\ ~guiOp'.created) =>
             /\ ~guiOp'.raised
             /\ content' = <<ErrorWidget(guiOp'.arg)>>
             /\ currentPage' = currentPage]_vars

\* C24 witness: with the contacts page current, an unknown page was requested:
\* the placeholder is shown and _current_page still says contacts.
C24_Witness ==
    /\ guiOp.op = "update_content"
    /\ guiOp.arg = "failing_devices"
    /\ guiOp.pre = "contacts"
    /\ currentPage = "contacts"
    /\ content = <<ErrorWidget("failing_devices")>>
    /\ ~guiOp.raised

\* the ids of the alerts on display, and of the active alerts of the store
DisplayedIds == {listAlerts[i].id : i \in DOMAIN listAlerts}
ActiveIds    == {r.id : r \in {x \in alerts : x.resolved = 0}}

\* C29 as stated: the alerts list mirrors the store: the table has one row per
\* entry of _alerts, in the same order, and the ids displayed are exactly the
\* ids of the active alerts in the store, each shown once.
C29_Original ==
    AlertsPageShown =>
       /\ Len(tableRows) = Len(listAlerts)
       /\ \A i \in DOMAIN tableRows :
             /\ tableRows[i].button = listAlerts[i].id
             /\ tableRows[i].description = listAlerts[i].description
             /\ tableRows[i].time = listAlerts[i].timestamp.sec
       /\ DisplayedIds = ActiveIds
       /\ \A i, j \in DOMAIN listAlerts : listAlerts[i].id = listAlerts[j].id => i = j

\* C30 as stated: whenever _current_page names a page, the single widget in
\* the content area is that page and not the error placeholder.
C30_Original ==
    (window = "built" /\ currentPage # NoPage) => content = <<PageWidget(currentPage)>>

\* ---------------------------------------------------------------------------
\* Claims about log_setup, checked under SpecLogging
\* ---------------------------------------------------------------------------

\* C25: init_logging configures the root logger at most once between resets:
\* further calls and concurrent first calls (direct or through get_logger)
\* install the handlers once and otherwise do nothing; after reset_logging the
\* next init_logging configures again; reset_logging on an uninitialised
\* system does nothing.
C25_ConfiguredOnce ==
    /\ [](/\ installs <= 1
          /\ logInitialised => installs = 1)
    /\ [][\A t \in Threads :
             /\ (logCall'[t].did = "skipped" /\ logCall[t].pc = "init_lock") =>
                   /\ logInitialised
                   /\ UNCHANGED <<logInitialised, rootHandlers, queueListener, installs>>
             /\ (logCall'[t].did = "configured" /\ logCall[t].pc = "init_flag") =>
                   /\ installs' = 1
                   /\ logInitialised'
                   /\ rootHandlers' # {}
             /\ (logCall[t].pc = "init_lock" /\ ~logInitialised /\ logCall'[t] # logCall[t]) =>
                   logCall'[t].pc = "init_configure"
             /\ (logCall'[t].did = "reset_noop" /\ logCall[t].pc = "reset_lock") =>
                   /\ ~logInitialised
                   /\ UNCHANGED <<logInitialised, rootHandlers, queueListener, installs>>
             /\ (logCall'[t].did = "reset" /\ logCall[t].pc = "reset_lock") =>
                   /\ ~logInitialised'
                   /\ rootHandlers' = {}
                   /\ installs' = 0]_vars

\* C25 witness: two threads made their first call together, one of them
\* through get_logger, which read the flag as False before the other set it:
\* one configured, the other found the flag set under the lock and did nothing.
C25_Witness ==
    /\ logCall["t1"].op = "init_logging" /\ logCall["t1"].did = "configured"
    /\ logCall["t2"].op = "get_logger" /\ logCall["t2"].did = "skipped"
    /\ logInitialised
    /\ installs = 1
    /\ rootHandlers = RootHandlersFor(logCall["t1"].mode)

====
